---- MODULE Spec2Model ----
(***************************************************************************)
(* A model of zlog's separate-chaining hashtable, src/libzlog/zc_hashtable.c *)
(*                                                                         *)
(* The table is kept as the C code keeps it: a bucket array `tab` of       *)
(* entry pointers, the entry records in a heap indexed by address, and the *)
(* counters tab_size and nelem.  Pointer 0 is NULL.  Keys are C strings    *)
(* (byte sequences) with an object identity, hashed and compared by        *)
(* zc_hashtable_str_hash / zc_hashtable_str_equal.                         *)
(***************************************************************************)
EXTENDS Integers, Sequences, FiniteSets, TLC

VARIABLES
    alive,          \* a_table still exists (FALSE after zc_hashtable_del)
    tab,            \* a_table->tab: [0..tab_size-1 -> entry pointer]
    tab_size,       \* a_table->tab_size
    nelem,          \* a_table->nelem
    key_del_fn,     \* a_table->key_del_fn is set
    value_del_fn,   \* a_table->value_del_fn is set
    heap,           \* entry records by address; Free where none is allocated
    last,           \* history: the last call, the branch it took, its result
    new_call,       \* history: what zc_hashtable_new was given, while it is the last call
    del_log,        \* history: the destructor calls the last call made, in order
    put_hist,       \* history: last value put per key string while only Puts ran
    ins_seq,        \* history: the entries now allocated, in order of insertion
    race,           \* the threads that call into the table without a lock (see below)
    pc,             \* the worked example: number of the program's next call (0: no
                    \* program; -1: no program, and the keys share a bucket)
    freed           \* history: the objects the destructors were called on, once and again

vars == <<alive, tab, tab_size, nelem, key_del_fn, value_del_fn, heap,
          last, new_call, del_log, put_hist, ins_seq, race, pc, freed>>

(***************************************************************************)
(* Bounds of the model                                                     *)
(***************************************************************************)
KeyCopies == 2      \* distinct objects holding the key string "a"
NumValues == 3      \* value objects offered by the caller of the general spec
HeapSize == 7       \* entry records the allocator can hand out at a time
ExtraOps == 2       \* calls the example program makes after its script
RaceSetupPuts == 2  \* entries put before the two threads start

(***************************************************************************)
(* Program constants                                                       *)
(***************************************************************************)
HashMul == 129              \* h = h * 129 + c
Half == 65536               \* unsigned int is 32 bits wide: two halves of 16
LoadNum == 13               \* the load factor 1.3, as LoadNum / LoadDen
LoadDen == 10

NULL == 0
NoKey == [str |-> <<>>, copy |-> 0]
UZero == [hi |-> 0, lo |-> 0]
Free == [hash_key |-> UZero, key |-> NoKey, value |-> NULL, next |-> NULL, prev |-> NULL]

(* C strings as byte sequences (the terminating NUL is implicit). *)
StrA == <<97>>
StrB == <<98>>
StrC == <<99>>
StrD == <<100>>
StrE == <<101>>
StrF == <<102>>
StrG == <<103>>
StrZ5 == <<122, 122, 122, 122, 122>>

KeyStrs == {StrA, StrE, StrZ5}
ExampleStrs == {StrA, StrB, StrC, StrD, StrE, StrF, StrG}
AllStrs == KeyStrs \cup ExampleStrs
InitSizes == {0, 1, 2}

(* A key object: the string it holds and which copy of it this is.  The client
   has one object per key string, and KeyCopies objects that hold "a". *)
KeyObj(s, c) == [str |-> s, copy |-> c]
Keys == {KeyObj(s, 1) : s \in KeyStrs} \cup {KeyObj(StrA, c) : c \in 1..KeyCopies}
ExampleKeys == {KeyObj(s, 1) : s \in ExampleStrs}
(* Three keys whose hashes are all odd: in a table of two buckets they share
   bucket 1 and make a chain with a head, a middle and a tail. *)
OneBucketStrs == {StrA, StrC, StrE}
OneBucketKeys == {KeyObj(s, 1) : s \in OneBucketStrs}
Values == 1..NumValues
ExampleValues == 1..3
EntryIds == 1..HeapSize

(***************************************************************************)
(* Strategy functions for string keys                                      *)
(***************************************************************************)
(* unsigned int values are kept as two 16-bit halves, so that h * 129 + c wraps
   at 2^32 as it does in C. *)
UMulAdd(h, m, c) ==
    LET lo == h.lo * m + c
        hi == h.hi * m + (lo \div Half)
    IN [hi |-> hi % Half, lo |-> lo % Half]

(* h % n for a size n. *)
UMod(h, n) == ((h.hi % n) * (Half % n) + (h.lo % n)) % n

RECURSIVE StrHashFrom(_, _, _)
StrHashFrom(h, str, n) ==
    IF n > Len(str) THEN h
    ELSE StrHashFrom(UMulAdd(h, HashMul, str[n]), str, n + 1)

(* The hash of every key string of the model, computed once. *)
StrHashOf == [str \in AllStrs |-> StrHashFrom(UZero, str, 1)]

zc_hashtable_str_hash(key) == StrHashOf[key.str]

zc_hashtable_str_equal(key1, key2) == key1.str = key2.str

hash_fn(key) == zc_hashtable_str_hash(key)
equal_fn(key1, key2) == zc_hashtable_str_equal(key1, key2)

(***************************************************************************)
(* The table as a value: what the operations read and write.               *)
(***************************************************************************)
Tbl(t, sz, n, h) == [tab |-> t, tab_size |-> sz, nelem |-> n, heap |-> h]
Cur == Tbl(tab, tab_size, nelem, heap)

EmptyTab(sz) == [i \in 0..(sz - 1) |-> NULL]
EmptyHeap == [p \in EntryIds |-> Free]

(* A thread that calls into the table: where it is in its call (pc), the call
   (op, key, value), the call's local variables (i, j, p, q, tab and tab_size of
   zc_hashtable_rehash as ntab and nsize, the condition of the if at line 225 as
   c, the value read by nelem++ or nelem-- as n), what it returned (rc) and the
   entry it inserted (ins). *)
Threads == {1, 2}
IdleTh ==
    [pc |-> "idle", op |-> "none", key |-> NoKey, value |-> NULL, i |-> 0, j |-> 0,
     p |-> NULL, q |-> NULL, c |-> FALSE, n |-> 0, bi |-> 0, nsize |-> 0,
     ntab |-> EmptyTab(0), rc |-> 0, ins |-> NULL]

(* mode: "none" where one caller makes whole calls; "serial" where the threads'
   calls are serialized by the caller; "free" where they are not.  tab_freed:
   the bucket array has been freed and a_table->tab still points to it.
   crashed: a thread has dereferenced NULL. *)
NoRace ==
    [mode |-> "none", th |-> [t \in Threads |-> IdleTh], tab_freed |-> FALSE,
     crashed |-> FALSE]

(* The destructor calls, as the history variable del_log records them. *)
KeyDel(k) == [fn |-> "key_del_fn", key |-> k, value |-> NULL]
ValueDel(v) == [fn |-> "value_del_fn", key |-> NoKey, value |-> v]
DelCalls(kd, vd, e) ==
    (IF kd THEN <<KeyDel(e.key)>> ELSE <<>>) \o (IF vd THEN <<ValueDel(e.value)>> ELSE <<>>)

(* calloc(1, sizeof(entry)): the allocator's choice of address does not show in
   any result of the table, so the lowest free address stands for it. *)
FreeIds(h) == {p \in EntryIds : h[p] = Free}
Calloc(h) == CHOOSE p \in FreeIds(h) : \A q \in FreeIds(h) : p <= q

(***************************************************************************)
(* zc_hashtable_new: NULL on a bad argument or a failed allocation.        *)
(***************************************************************************)
(* The NULL return: no table record exists. *)
NullTable ==
    [tab |-> <<>>, tab_size |-> 0, nelem |-> 0, key_del_fn |-> FALSE, value_del_fn |-> FALSE]

zc_hashtable_new_TabUnchecked(a_size, has_hash_fn, has_equal_fn, kd, vd, table_ok, tab_ok) ==
    IF a_size = 0 \/ ~has_hash_fn \/ ~has_equal_fn THEN NullTable
    ELSE IF ~table_ok THEN NullTable
    ELSE [tab |-> EmptyTab(a_size), tab_size |-> a_size, nelem |-> 0,
          key_del_fn |-> kd, value_del_fn |-> vd]

(* table_ok, tab_ok: whether calloc of the table record, of the bucket array,
   succeeds. *)
zc_hashtable_new(a_size, has_hash_fn, has_equal_fn, kd, vd, table_ok, tab_ok) ==
    IF a_size = 0 \/ ~has_hash_fn \/ ~has_equal_fn THEN NullTable
    ELSE IF ~table_ok THEN NullTable
    ELSE IF ~tab_ok THEN NullTable
    ELSE [tab |-> EmptyTab(a_size), tab_size |-> a_size, nelem |-> 0,
          key_del_fn |-> kd, value_del_fn |-> vd]

(* What a call of zc_hashtable_new was given. *)
NewCall(a_size, has_hash_fn, has_equal_fn, kd, vd, table_ok, tab_ok) ==
    [a_size |-> a_size, hash_fn |-> has_hash_fn, equal_fn |-> has_equal_fn,
     key_del_fn |-> kd, value_del_fn |-> vd, table_ok |-> table_ok, tab_ok |-> tab_ok]
NoCall == NewCall(0, FALSE, FALSE, FALSE, FALSE, FALSE, FALSE)

(* The objects handed to key_del_fn and value_del_fn so far, and those handed to
   them a second time. *)
NoFreed ==
    [keys |-> {}, values |-> {}, keys_again |-> {}, values_again |-> {}, aliased |-> FALSE]

(***************************************************************************)
(* Lookup                                                                  *)
(***************************************************************************)
RECURSIVE ScanChain(_, _, _)
ScanChain(h, p, a_key) ==
    IF p = NULL THEN NULL
    ELSE IF equal_fn(a_key, h[p].key) THEN p
    ELSE ScanChain(h, h[p].next, a_key)

GetEntryIn(t, a_key) ==
    ScanChain(t.heap, t.tab[UMod(hash_fn(a_key), t.tab_size)], a_key)

GetIn(t, a_key) ==
    LET p == GetEntryIn(t, a_key) IN IF p # NULL THEN t.heap[p].value ELSE NULL

zc_hashtable_get_entry(a_key) == GetEntryIn(Cur, a_key)
zc_hashtable_get(a_key) == GetIn(Cur, a_key)

(***************************************************************************)
(* zc_hashtable_rehash: the entries re-linked into a doubled bucket array. *)
(***************************************************************************)
RECURSIVE RehashChainOldIndex(_, _, _, _)
RehashChainOldIndex(ntab, h, p, nsize) ==
    IF p = NULL THEN [tab |-> ntab, heap |-> h]
    ELSE LET q == h[p].next
             j == UMod(h[p].hash_key, nsize \div 2)
             h1 == [h EXCEPT ![p].next = NULL, ![p].prev = NULL]
             h2 == IF ntab[j] # NULL
                   THEN [h1 EXCEPT ![ntab[j]].prev = p, ![p].next = ntab[j]]
                   ELSE h1
         IN RehashChainOldIndex([ntab EXCEPT ![j] = p], h2, q, nsize)

RECURSIVE ChainTail(_, _)
ChainTail(h, p) == IF h[p].next = NULL THEN p ELSE ChainTail(h, h[p].next)

RECURSIVE RehashChainAtTail(_, _, _, _)
RehashChainAtTail(ntab, h, p, nsize) ==
    IF p = NULL THEN [tab |-> ntab, heap |-> h]
    ELSE LET q == h[p].next
             j == UMod(h[p].hash_key, nsize)
             h1 == [h EXCEPT ![p].next = NULL, ![p].prev = NULL]
             tl == ChainTail(h1, ntab[j])
         IN IF ntab[j] = NULL
            THEN RehashChainAtTail([ntab EXCEPT ![j] = p], h1, q, nsize)
            ELSE RehashChainAtTail(ntab, [h1 EXCEPT ![tl].next = p, ![p].prev = tl],
                                   q, nsize)

RECURSIVE RehashChain(_, _, _, _)
RehashChain(ntab, h, p, nsize) ==
    IF p = NULL THEN [tab |-> ntab, heap |-> h]
    ELSE LET q == h[p].next
             j == UMod(h[p].hash_key, nsize)
             h1 == [h EXCEPT ![p].next = NULL, ![p].prev = NULL]
             h2 == IF ntab[j] # NULL
                   THEN [h1 EXCEPT ![ntab[j]].prev = p, ![p].next = ntab[j]]
                   ELSE h1
         IN RehashChain([ntab EXCEPT ![j] = p], h2, q, nsize)

RECURSIVE RehashBucketsEveryOther(_, _, _, _, _)
RehashBucketsEveryOther(i, t, ntab, h, nsize) ==
    IF i >= t.tab_size THEN [tab |-> ntab, heap |-> h]
    ELSE LET r == RehashChain(ntab, h, t.tab[i], nsize)
         IN RehashBucketsEveryOther(i + 2, t, r.tab, r.heap, nsize)

RECURSIVE RehashBuckets(_, _, _, _, _)
RehashBuckets(i, t, ntab, h, nsize) ==
    IF i >= t.tab_size THEN [tab |-> ntab, heap |-> h]
    ELSE LET r == RehashChain(ntab, h, t.tab[i], nsize)
         IN RehashBuckets(i + 1, t, r.tab, r.heap, nsize)

zc_hashtable_rehash_KeepsSize(t, tab_ok) ==
    LET nsize == 2 * t.tab_size
        r == RehashBuckets(0, t, EmptyTab(nsize), t.heap, nsize)
    IN IF ~tab_ok THEN [rc |-> -1, t |-> t]
       ELSE [rc |-> 0, t |-> Tbl(r.tab, t.tab_size, t.nelem, r.heap)]

zc_hashtable_rehash_Triples(t, tab_ok) ==
    LET nsize == 3 * t.tab_size
        r == RehashBuckets(0, t, EmptyTab(nsize), t.heap, nsize)
    IN IF ~tab_ok THEN [rc |-> -1, t |-> t]
       ELSE [rc |-> 0, t |-> Tbl(r.tab, nsize, t.nelem, r.heap)]

(* tab_ok: whether calloc of the doubled array succeeds.  rc is what the function
   returns, t the table as it leaves it. *)
zc_hashtable_rehash(t, tab_ok) ==
    LET nsize == 2 * t.tab_size
        r == RehashBuckets(0, t, EmptyTab(nsize), t.heap, nsize)
    IN IF ~tab_ok THEN [rc |-> -1, t |-> t]
       ELSE [rc |-> 0, t |-> Tbl(r.tab, nsize, t.nelem, r.heap)]

NeedRehashAtFull(t) == t.nelem >= t.tab_size

NeedRehash(t) == t.nelem * LoadDen > t.tab_size * LoadNum

(***************************************************************************)
(* zc_hashtable_put                                                        *)
(***************************************************************************)
PutUpdateKeepsValue(t, p, a_key, a_value) ==
    Tbl(t.tab, t.tab_size, t.nelem, [t.heap EXCEPT ![p].key = a_key])

PutUpdateKeepsKey(t, p, a_key, a_value) ==
    Tbl(t.tab, t.tab_size, t.nelem, [t.heap EXCEPT ![p].value = a_value])

PutUpdate(t, p, a_key, a_value) ==
    Tbl(t.tab, t.tab_size, t.nelem,
        [t.heap EXCEPT ![p].key = a_key, ![p].value = a_value])

PutInsertBucketZero(t, p, a_key, a_value) ==
    LET hk == hash_fn(a_key)
        i == 0
        head == t.tab[i]
        e == [hash_key |-> hk, key |-> a_key, value |-> a_value,
              next |-> head, prev |-> NULL]
        h1 == IF head # NULL THEN [t.heap EXCEPT ![head].prev = p] ELSE t.heap
    IN Tbl([t.tab EXCEPT ![i] = p], t.tab_size, t.nelem + 1, [h1 EXCEPT ![p] = e])

(* Put whose new entry replaces the bucket head without lines 225-228: the old
   chain is no longer linked behind it. *)
PutInsertDropsChain(t, p, a_key, a_value) ==
    LET hk == hash_fn(a_key)
        i == UMod(hk, t.tab_size)
        e == [hash_key |-> hk, key |-> a_key, value |-> a_value,
              next |-> NULL, prev |-> NULL]
    IN Tbl([t.tab EXCEPT ![i] = p], t.tab_size, t.nelem + 1, [t.heap EXCEPT ![p] = e])

PutInsertNoCount(t, p, a_key, a_value) ==
    LET hk == hash_fn(a_key)
        i == UMod(hk, t.tab_size)
        head == t.tab[i]
        e == [hash_key |-> hk, key |-> a_key, value |-> a_value,
              next |-> head, prev |-> NULL]
        h1 == IF head # NULL THEN [t.heap EXCEPT ![head].prev = p] ELSE t.heap
    IN Tbl([t.tab EXCEPT ![i] = p], t.tab_size, t.nelem, [h1 EXCEPT ![p] = e])

PutInsert(t, p, a_key, a_value) ==
    LET hk == hash_fn(a_key)
        i == UMod(hk, t.tab_size)
        head == t.tab[i]
        e == [hash_key |-> hk, key |-> a_key, value |-> a_value,
              next |-> head, prev |-> NULL]
        h1 == IF head # NULL THEN [t.heap EXCEPT ![head].prev = p] ELSE t.heap
    IN Tbl([t.tab EXCEPT ![i] = p], t.tab_size, t.nelem + 1, [h1 EXCEPT ![p] = e])

Store(t) ==
    /\ nelem' = t.nelem
    /\ tab_size' = t.tab_size
    /\ tab' = t.tab
    /\ heap' = t.heap

Result(op, path, rc) == [op |-> op, path |-> path, rc |-> rc]

Path(rehashed, plain, after) == IF rehashed THEN after ELSE plain

(* The Put-only history: the last value put for each key string, kept while the
   calls since zc_hashtable_new were all Puts. *)
NoHist == [valid |-> FALSE, value |-> [s \in AllStrs |-> NULL]]
NewHist == [valid |-> TRUE, value |-> [s \in AllStrs |-> NULL]]
HistPut(a_key, a_value) ==
    IF put_hist.valid THEN [put_hist EXCEPT !.value[a_key.str] = a_value] ELSE put_hist

PutRehashUnchecked(t, tab_ok) ==
    IF NeedRehash(t) THEN [rc |-> 0, t |-> zc_hashtable_rehash(t, tab_ok).t]
    ELSE [rc |-> 0, t |-> t]

(* The load check and the rehash it may call: rc and the table afterwards. *)
PutRehash(t, tab_ok) ==
    IF NeedRehash(t) THEN zc_hashtable_rehash(t, tab_ok) ELSE [rc |-> 0, t |-> t]

(* Put that runs the load check and the rehash before it looks the key up. *)
PutCallRehashFirst(t, kd, vd, a_key, a_value, tab_ok, p_ok) ==
    LET re == NeedRehash(t)
        r == PutRehash(t, tab_ok)
        p == GetEntryIn(r.t, a_key)
    IN IF r.rc # 0
       THEN [t |-> r.t, rc |-> -1, path |-> "rehash_fail", log |-> <<>>]
       ELSE IF p # NULL
       THEN [t |-> PutUpdate(r.t, p, a_key, a_value), rc |-> 0, path |-> "update",
             log |-> DelCalls(kd, vd, r.t.heap[p])]
       ELSE IF ~p_ok
       THEN [t |-> r.t, rc |-> -1, path |-> Path(re, "calloc_fail", "rehash_calloc_fail"),
             log |-> <<>>]
       ELSE [t |-> PutInsert(r.t, Calloc(r.t.heap), a_key, a_value), rc |-> 0,
             path |-> Path(re, "insert", "rehash_insert"), log |-> <<>>]

(* The whole call, on table t: the table afterwards, the return code, the branch
   taken and the destructor calls made.  tab_ok, p_ok: whether calloc of the
   doubled array, of the entry, succeeds. *)
PutCall(t, kd, vd, a_key, a_value, tab_ok, p_ok) ==
    LET p == GetEntryIn(t, a_key)
        re == NeedRehash(t)
        r == PutRehash(t, tab_ok)
    IN IF p # NULL
       THEN [t |-> PutUpdate(t, p, a_key, a_value), rc |-> 0, path |-> "update",
             log |-> DelCalls(kd, vd, t.heap[p])]
       ELSE IF r.rc # 0
       THEN [t |-> r.t, rc |-> -1, path |-> "rehash_fail", log |-> <<>>]
       ELSE IF ~p_ok
       THEN [t |-> r.t, rc |-> -1, path |-> Path(re, "calloc_fail", "rehash_calloc_fail"),
             log |-> <<>>]
       ELSE [t |-> PutInsert(r.t, Calloc(r.t.heap), a_key, a_value), rc |-> 0,
             path |-> Path(re, "insert", "rehash_insert"), log |-> <<>>]

(* Whether the call reaches calloc of the doubled array (through
   zc_hashtable_rehash), calloc of the new entry. *)
PutCallsRehash(t, a_key) == GetEntryIn(t, a_key) = NULL /\ NeedRehash(t)

PutCallsCalloc(t, a_key, tab_ok) ==
    GetEntryIn(t, a_key) = NULL /\ (NeedRehash(t) => tab_ok)

(* An allocation the call does not attempt has no outcome to choose: its flag is
   TRUE.  The entry's calloc can succeed only while the heap has a free address. *)
zc_hashtable_put(a_key, a_value, tab_ok, p_ok) ==
    /\ alive
    /\ ~tab_ok => PutCallsRehash(Cur, a_key)
    /\ ~p_ok => PutCallsCalloc(Cur, a_key, tab_ok)
    /\ (p_ok /\ FreeIds(heap) = {}) => ~PutCallsCalloc(Cur, a_key, tab_ok)
    /\ \E c \in {PutCall(Cur, key_del_fn, value_del_fn, a_key, a_value, tab_ok, p_ok)} :
          /\ last' = Result("put", c.path, c.rc)
          /\ del_log' = c.log
          /\ Store(c.t)
          /\ put_hist' = IF c.rc = 0 THEN HistPut(a_key, a_value) ELSE put_hist
          /\ new_call' = NoCall
          /\ ins_seq' = IF c.t.nelem = nelem + 1 THEN Append(ins_seq, Calloc(heap)) ELSE ins_seq
    /\ UNCHANGED <<alive, key_del_fn, value_del_fn, race>>

(***************************************************************************)
(* zc_hashtable_remove                                                     *)
(***************************************************************************)
UnlinkKeepsCount(t, p) ==
    LET e == t.heap[p]
        h1 == IF e.next # NULL THEN [t.heap EXCEPT ![e.next].prev = e.prev] ELSE t.heap
        h2 == IF e.prev # NULL THEN [h1 EXCEPT ![e.prev].next = e.next] ELSE h1
        t2 == IF e.prev # NULL THEN t.tab
              ELSE [t.tab EXCEPT ![UMod(e.hash_key, t.tab_size)] = e.next]
    IN Tbl(t2, t.tab_size, t.nelem, [h2 EXCEPT ![p] = Free])

(* Remove without lines 262-264: the successor's prev is left pointing at the
   freed entry. *)
UnlinkForwardOnly(t, p) ==
    LET e == t.heap[p]
        h2 == IF e.prev # NULL THEN [t.heap EXCEPT ![e.prev].next = e.next] ELSE t.heap
        t2 == IF e.prev # NULL THEN t.tab
              ELSE [t.tab EXCEPT ![UMod(e.hash_key, t.tab_size)] = e.next]
    IN Tbl(t2, t.tab_size, t.nelem - 1, [h2 EXCEPT ![p] = Free])

Unlink(t, p) ==
    LET e == t.heap[p]
        h1 == IF e.next # NULL THEN [t.heap EXCEPT ![e.next].prev = e.prev] ELSE t.heap
        h2 == IF e.prev # NULL THEN [h1 EXCEPT ![e.prev].next = e.next] ELSE h1
        t2 == IF e.prev # NULL THEN t.tab
              ELSE [t.tab EXCEPT ![UMod(e.hash_key, t.tab_size)] = e.next]
    IN Tbl(t2, t.tab_size, t.nelem - 1, [h2 EXCEPT ![p] = Free])

zc_hashtable_remove(a_key) ==
    /\ alive
    /\ LET p == GetEntryIn(Cur, a_key)
       IN IF p = NULL
          THEN /\ UNCHANGED <<tab, tab_size, nelem, heap>>
               /\ del_log' = <<>>
               /\ last' = Result("remove", "absent", 0)
               /\ ins_seq' = ins_seq
          ELSE /\ Store(Unlink(Cur, p))
               /\ del_log' = DelCalls(key_del_fn, value_del_fn, heap[p])
               /\ last' = Result("remove", "removed", 0)
               /\ ins_seq' = SelectSeq(ins_seq, LAMBDA q : q # p)
    /\ put_hist' = NoHist
    /\ new_call' = NoCall
    /\ UNCHANGED <<alive, key_del_fn, value_del_fn, race>>

(***************************************************************************)
(* zc_hashtable_clean and zc_hashtable_del: the walk that frees every entry *)
(***************************************************************************)
RECURSIVE FreeChain(_, _, _, _, _)
FreeChain(h, log, p, kd, vd) ==
    IF p = NULL THEN [heap |-> h, log |-> log]
    ELSE LET q == h[p].next
         IN FreeChain([h EXCEPT ![p] = Free], log \o DelCalls(kd, vd, h[p]), q, kd, vd)

RECURSIVE FreeBucketsKeepsHeads(_, _, _, _, _, _, _)
FreeBucketsKeepsHeads(i, t, ntab, h, log, kd, vd) ==
    IF i >= t.tab_size THEN [tab |-> ntab, heap |-> h, log |-> log]
    ELSE LET r == FreeChain(h, log, ntab[i], kd, vd)
         IN FreeBucketsKeepsHeads(i + 1, t, ntab, r.heap, r.log, kd, vd)

RECURSIVE FreeBuckets(_, _, _, _, _, _, _)
FreeBuckets(i, t, ntab, h, log, kd, vd) ==
    IF i >= t.tab_size THEN [tab |-> ntab, heap |-> h, log |-> log]
    ELSE LET r == FreeChain(h, log, ntab[i], kd, vd)
         IN FreeBuckets(i + 1, t, [ntab EXCEPT ![i] = NULL], r.heap, r.log, kd, vd)

zc_hashtable_clean ==
    /\ alive
    /\ \E r \in {FreeBuckets(0, Cur, tab, heap, <<>>, key_del_fn, value_del_fn)} :
          /\ Store(Tbl(r.tab, tab_size, 0, r.heap))
          /\ del_log' = r.log
    /\ last' = Result("clean", "clean", 0)
    /\ ins_seq' = <<>>
    /\ put_hist' = NoHist
    /\ new_call' = NoCall
    /\ UNCHANGED <<alive, key_del_fn, value_del_fn, race>>

(* After zc_hashtable_del the bucket array and the table record are freed: no
   field of them may be read again, and the variables hold fixed values. *)
zc_hashtable_del ==
    /\ alive
    /\ \E r \in {FreeBuckets(0, Cur, tab, heap, <<>>, key_del_fn, value_del_fn)} :
          /\ Store(Tbl(<<>>, 0, 0, r.heap))
          /\ del_log' = r.log
    /\ alive' = FALSE
    /\ last' = Result("del", "del", 0)
    /\ ins_seq' = <<>>
    /\ put_hist' = NoHist
    /\ new_call' = NoCall
    /\ UNCHANGED <<key_del_fn, value_del_fn, race>>

(***************************************************************************)
(* Iteration: zc_hashtable_begin, zc_hashtable_next                        *)
(***************************************************************************)
RECURSIVE FirstHead(_, _)
FirstHead(t, j) ==
    IF j >= t.tab_size THEN NULL
    ELSE IF t.tab[j] # NULL THEN t.tab[j]
    ELSE FirstHead(t, j + 1)

BeginIn(t) == FirstHead(t, 0)

NextInSameBucket(t, a_entry) ==
    IF t.heap[a_entry].next # NULL THEN t.heap[a_entry].next
    ELSE FirstHead(t, UMod(t.heap[a_entry].hash_key, t.tab_size))

NextIn(t, a_entry) ==
    IF t.heap[a_entry].next # NULL THEN t.heap[a_entry].next
    ELSE FirstHead(t, UMod(t.heap[a_entry].hash_key, t.tab_size) + 1)

zc_hashtable_begin == BeginIn(Cur)
zc_hashtable_next(a_entry) == NextIn(Cur, a_entry)

(***************************************************************************)
(* What the table holds, by walking it                                     *)
(***************************************************************************)
RECURSIVE ChainSeq(_, _)
ChainSeq(h, p) == IF p = NULL THEN <<>> ELSE <<p>> \o ChainSeq(h, h[p].next)

RECURSIVE WalkFrom(_, _)
WalkFrom(t, i) ==
    IF i >= t.tab_size THEN <<>>
    ELSE ChainSeq(t.heap, t.tab[i]) \o WalkFrom(t, i + 1)

Walk(t) == WalkFrom(t, 0)
Range(seq) == {seq[n] : n \in 1..Len(seq)}
Live(t) == Range(Walk(t))
StoredKeys == {heap[p].key : p \in Live(Cur)}
StoredValues == {heap[p].value : p \in Live(Cur)}

(***************************************************************************)
(* The callers                                                             *)
(***************************************************************************)
(* With a destructor configured the table owns what it stores: the caller
   passes only objects it still owns. *)
CallerOwns(k, v) ==
    /\ key_del_fn => k \notin StoredKeys
    /\ value_del_fn => v \notin StoredValues

(* The state after zc_hashtable_new(...): the table it returned, or no table when
   it returned NULL. *)
InitNew(a_size, has_hash_fn, has_equal_fn, kd, vd, table_ok, tab_ok) ==
    LET t == zc_hashtable_new(a_size, has_hash_fn, has_equal_fn, kd, vd, table_ok, tab_ok)
    IN /\ alive = (t # NullTable)
       /\ tab = t.tab
       /\ tab_size = t.tab_size
       /\ nelem = t.nelem
       /\ key_del_fn = t.key_del_fn
       /\ value_del_fn = t.value_del_fn
       /\ heap = EmptyHeap
       /\ last = IF t # NullTable THEN Result("new", "new", 0) ELSE Result("new", "null", -1)
       /\ new_call = NewCall(a_size, has_hash_fn, has_equal_fn, kd, vd, table_ok, tab_ok)
       /\ del_log = <<>>
       /\ put_hist = NewHist
       /\ ins_seq = <<>>
       /\ freed = NoFreed

(* A client that makes any calls, on a table of any configuration. *)
InitClient ==
    /\ \E a_size \in InitSizes, has_hash_fn \in BOOLEAN, has_equal_fn \in BOOLEAN,
          kd \in BOOLEAN, vd \in BOOLEAN, table_ok \in BOOLEAN, tab_ok \in BOOLEAN :
          InitNew(a_size, has_hash_fn, has_equal_fn, kd, vd, table_ok, tab_ok)
    /\ race = NoRace
    /\ pc = 0

(* The keys a client passes: pc = 0 is the client of any table, pc = -1 the
   client whose keys share a bucket. *)
ClientKeys == IF pc = 0 THEN Keys ELSE OneBucketKeys

(* A client whose keys all hash to one bucket of a table of two buckets. *)
InitOneBucket ==
    /\ InitNew(2, TRUE, TRUE, FALSE, FALSE, TRUE, TRUE)
    /\ race = NoRace
    /\ pc = -1

Put ==
    /\ pc <= 0
    /\ \E k \in ClientKeys, v \in Values :
          /\ CallerOwns(k, v)
          /\ \E tab_ok \in BOOLEAN, p_ok \in BOOLEAN : zc_hashtable_put(k, v, tab_ok, p_ok)
    /\ UNCHANGED <<pc, freed>>

Remove ==
    /\ pc <= 0
    /\ \E k \in ClientKeys : zc_hashtable_remove(k)
    /\ UNCHANGED <<pc, freed>>

Clean == pc <= 0 /\ zc_hashtable_clean /\ UNCHANGED <<pc, freed>>

Del == pc <= 0 /\ zc_hashtable_del /\ UNCHANGED <<pc, freed>>

(***************************************************************************)
(* The worked example: New(4, string hash, string equal, no destructors),  *)
(* Put("a",1), Put("b",2), Put("a",3), then Puts of "c", "d", "e"; after   *)
(* the script the program makes ExtraOps more calls of any kind.           *)
(***************************************************************************)
Script == <<[str |-> StrA, value |-> 1], [str |-> StrB, value |-> 2],
            [str |-> StrA, value |-> 3], [str |-> StrC, value |-> 1],
            [str |-> StrD, value |-> 2], [str |-> StrE, value |-> 3]>>
ScriptDone == Len(Script) + 1

InitExample ==
    /\ InitNew(4, TRUE, TRUE, FALSE, FALSE, TRUE, TRUE)
    /\ race = NoRace
    /\ pc = 1

ExampleScript ==
    /\ pc >= 1
    /\ pc < ScriptDone
    /\ zc_hashtable_put(KeyObj(Script[pc].str, 1), Script[pc].value, TRUE, TRUE)
    /\ pc' = pc + 1
    /\ UNCHANGED freed

ExampleMore ==
    /\ pc >= ScriptDone
    /\ pc < ScriptDone + ExtraOps
    /\ pc' = pc + 1
    /\ UNCHANGED freed

ExamplePut ==
    /\ ExampleMore
    /\ \E k \in ExampleKeys, v \in ExampleValues, tab_ok \in BOOLEAN, p_ok \in BOOLEAN :
          zc_hashtable_put(k, v, tab_ok, p_ok)

ExampleRemove == ExampleMore /\ \E k \in ExampleKeys : zc_hashtable_remove(k)

ExampleClean == ExampleMore /\ zc_hashtable_clean

ExampleDel == ExampleMore /\ zc_hashtable_del

Init == InitClient \/ InitOneBucket \/ InitExample

Next ==
    \/ Put \/ Remove \/ Clean \/ Del
    \/ ExampleScript \/ ExamplePut \/ ExampleRemove \/ ExampleClean \/ ExampleDel

Spec == Init /\ [][Next]_vars

(***************************************************************************)
(* Two threads call into one table.  Each thread makes one call; a step of *)
(* a thread is one statement of the source that reads or writes the        *)
(* table, and nelem++ and nelem-- are a read followed by a write.  Before  *)
(* the threads start, a single caller puts up to RaceSetupPuts entries.    *)
(* calloc never fails here.                                                *)
(*                                                                         *)
(* Reading memory that has been freed is undefined behaviour: the value    *)
(* read is any value of the field's type.  A write to freed memory lands   *)
(* in no entry of the table.  Dereferencing NULL ends the process.         *)
(***************************************************************************)
(* Thread 1 puts a key the setup has not put; thread 2 puts or removes any key. *)
SetupKeys == {KeyObj(StrA, 1), KeyObj(StrE, 1)}
RaceKeys(t) == IF t = 1 THEN {KeyObj(StrZ5, 1)} ELSE SetupKeys \cup {KeyObj(StrZ5, 1)}
RaceOps(t) == IF t = 1 THEN {"put"} ELSE {"put", "remove"}
SetupValue == 1
RaceValue == 2
AnyHash == {[hi |-> 0, lo |-> n] : n \in 0..3}

Th(t) == race.th[t]
InCall(t) == Th(t).pc \notin {"idle", "done"}

(* The caller's lock: in mode "serial" a thread runs only while no other thread
   is inside a call. *)
MayRun(t) ==
    /\ race.mode \in {"serial", "free"}
    /\ ~race.crashed
    /\ race.mode = "serial" => \A u \in Threads \ {t} : ~InCall(u)

At(t, label) == MayRun(t) /\ Th(t).pc = label

(* Any pointer value: NULL, an entry, or an address that holds no entry (one
   such address stands for all of them). *)
AnyPointer ==
    {NULL} \cup {p \in EntryIds : heap[p] # Free}
           \cup (IF FreeIds(heap) # {} THEN {Calloc(heap)} ELSE {})

ReadTab(i) == IF race.tab_freed THEN AnyPointer ELSE {tab[i]}
ReadNext(p) == IF heap[p] # Free THEN {heap[p].next} ELSE AnyPointer
ReadPrev(p) == IF heap[p] # Free THEN {heap[p].prev} ELSE AnyPointer
ReadHash(p) == IF heap[p] # Free THEN {heap[p].hash_key} ELSE AnyHash
ReadKeyEqual(k, p) == IF heap[p] # Free THEN {equal_fn(k, heap[p].key)} ELSE BOOLEAN

WriteNext(h, p, v) == IF h[p] # Free THEN [h EXCEPT ![p].next = v] ELSE h
WritePrev(h, p, v) == IF h[p] # Free THEN [h EXCEPT ![p].prev = v] ELSE h
WriteTab(i, v) == IF race.tab_freed THEN tab ELSE [tab EXCEPT ![i] = v]

RaceFrame ==
    UNCHANGED <<alive, key_del_fn, value_del_fn, last, new_call, del_log, put_hist,
                ins_seq, pc, freed>>
MemSame == UNCHANGED <<tab, tab_size, nelem, heap>>
SetTh(t, r) == race' = [race EXCEPT !.th[t] = r]
Goto(t, label) == SetTh(t, [Th(t) EXCEPT !.pc = label])
Return(t, rc) ==
    SetTh(t, [IdleTh EXCEPT !.pc = "done", !.op = Th(t).op, !.key = Th(t).key,
                            !.rc = rc, !.ins = Th(t).ins])

RaceSetup ==
    /\ race.mode \in {"serial", "free"}
    /\ \A t \in Threads : Th(t).pc = "idle"
    /\ nelem < RaceSetupPuts
    /\ \E k \in SetupKeys : zc_hashtable_put(k, SetupValue, TRUE, TRUE)
    /\ UNCHANGED <<pc, freed>>

RaceCall(t) ==
    /\ At(t, "idle")
    /\ \E op \in RaceOps(t), k \in RaceKeys(t) :
          SetTh(t, [IdleTh EXCEPT !.pc = "hash", !.op = op, !.key = k,
                                  !.value = IF op = "put" THEN RaceValue ELSE NULL])
    /\ MemSame /\ RaceFrame

(* The scan for a_key, in zc_hashtable_put and in zc_hashtable_remove. *)
ScanHash(t) ==
    /\ At(t, "hash")
    /\ SetTh(t, [Th(t) EXCEPT !.pc = "head", !.i = UMod(hash_fn(Th(t).key), tab_size)])
    /\ MemSame /\ RaceFrame

ScanHead(t) ==
    /\ At(t, "head")
    /\ \E v \in ReadTab(Th(t).i) : SetTh(t, [Th(t) EXCEPT !.pc = "cmp", !.p = v])
    /\ MemSame /\ RaceFrame

ScanCmp(t) ==
    /\ At(t, "cmp")
    /\ IF Th(t).p = NULL
       THEN IF Th(t).op = "put" THEN Goto(t, "load") ELSE Return(t, 0)
       ELSE \E e \in ReadKeyEqual(Th(t).key, Th(t).p) :
               IF e THEN Goto(t, IF Th(t).op = "put" THEN "updk" ELSE "un1")
               ELSE Goto(t, "adv")
    /\ MemSame /\ RaceFrame

ScanAdv(t) ==
    /\ At(t, "adv")
    /\ \E v \in ReadNext(Th(t).p) : SetTh(t, [Th(t) EXCEPT !.pc = "cmp", !.p = v])
    /\ MemSame /\ RaceFrame

(* zc_hashtable_put, the key is found: p->key = a_key; p->value = a_value. *)
PutSetKey(t) ==
    /\ At(t, "updk")
    /\ heap' = IF heap[Th(t).p] # Free THEN [heap EXCEPT ![Th(t).p].key = Th(t).key]
               ELSE heap
    /\ Goto(t, "updv")
    /\ UNCHANGED <<tab, tab_size, nelem>> /\ RaceFrame

PutSetValue(t) ==
    /\ At(t, "updv")
    /\ heap' = IF heap[Th(t).p] # Free THEN [heap EXCEPT ![Th(t).p].value = Th(t).value]
               ELSE heap
    /\ Return(t, 0)
    /\ UNCHANGED <<tab, tab_size, nelem>> /\ RaceFrame

(* zc_hashtable_put, the key is not found: the load check. *)
PutLoad(t) ==
    /\ At(t, "load")
    /\ Goto(t, IF NeedRehash(Cur) THEN "r_new" ELSE "alloc")
    /\ MemSame /\ RaceFrame

(* zc_hashtable_rehash. *)
RehashNew(t) ==
    /\ At(t, "r_new")
    /\ SetTh(t, [Th(t) EXCEPT !.pc = "r_loop", !.nsize = 2 * tab_size,
                              !.ntab = EmptyTab(2 * tab_size), !.bi = 0])
    /\ MemSame /\ RaceFrame

RehashLoop(t) ==
    /\ At(t, "r_loop")
    /\ IF Th(t).bi < tab_size
       THEN \E v \in ReadTab(Th(t).bi) : SetTh(t, [Th(t) EXCEPT !.pc = "r_chain", !.p = v])
       ELSE Goto(t, "r_free")
    /\ MemSame /\ RaceFrame

RehashChainStep(t) ==
    /\ At(t, "r_chain")
    /\ IF Th(t).p = NULL
       THEN SetTh(t, [Th(t) EXCEPT !.pc = "r_loop", !.bi = @ + 1])
       ELSE \E v \in ReadNext(Th(t).p) : SetTh(t, [Th(t) EXCEPT !.pc = "r_clrn", !.q = v])
    /\ MemSame /\ RaceFrame

RehashClearNext(t) ==
    /\ At(t, "r_clrn")
    /\ heap' = WriteNext(heap, Th(t).p, NULL)
    /\ Goto(t, "r_clrp")
    /\ UNCHANGED <<tab, tab_size, nelem>> /\ RaceFrame

RehashClearPrev(t) ==
    /\ At(t, "r_clrp")
    /\ heap' = WritePrev(heap, Th(t).p, NULL)
    /\ Goto(t, "r_idx")
    /\ UNCHANGED <<tab, tab_size, nelem>> /\ RaceFrame

RehashIndex(t) ==
    /\ At(t, "r_idx")
    /\ \E h \in ReadHash(Th(t).p) :
          \E j \in {UMod(h, Th(t).nsize)} :
              SetTh(t, [Th(t) EXCEPT !.j = j, !.c = (Th(t).ntab[j] # NULL),
                                     !.pc = IF Th(t).ntab[j] # NULL THEN "r_l1" ELSE "r_set"])
    /\ MemSame /\ RaceFrame

RehashLinkPrev(t) ==
    /\ At(t, "r_l1")
    /\ heap' = WritePrev(heap, Th(t).ntab[Th(t).j], Th(t).p)
    /\ Goto(t, "r_l2")
    /\ UNCHANGED <<tab, tab_size, nelem>> /\ RaceFrame

RehashLinkNext(t) ==
    /\ At(t, "r_l2")
    /\ heap' = WriteNext(heap, Th(t).p, Th(t).ntab[Th(t).j])
    /\ Goto(t, "r_set")
    /\ UNCHANGED <<tab, tab_size, nelem>> /\ RaceFrame

RehashSetHead(t) ==
    /\ At(t, "r_set")
    /\ SetTh(t, [Th(t) EXCEPT !.pc = "r_chain", !.ntab = [@ EXCEPT ![Th(t).j] = Th(t).p],
                              !.p = Th(t).q, !.q = NULL, !.j = 0, !.c = FALSE])
    /\ MemSame /\ RaceFrame

RehashFreeTab(t) ==
    /\ At(t, "r_free")
    /\ race' = [race EXCEPT !.tab_freed = TRUE, !.th[t].pc = "r_tab"]
    /\ MemSame /\ RaceFrame

RehashSetTab(t) ==
    /\ At(t, "r_tab")
    /\ tab' = Th(t).ntab
    /\ race' = [race EXCEPT !.tab_freed = FALSE, !.th[t].pc = "r_size"]
    /\ UNCHANGED <<tab_size, nelem, heap>> /\ RaceFrame

RehashSetSize(t) ==
    /\ At(t, "r_size")
    /\ tab_size' = Th(t).nsize
    /\ SetTh(t, [Th(t) EXCEPT !.pc = "alloc", !.nsize = 0, !.ntab = EmptyTab(0),
                              !.bi = 0, !.p = NULL])
    /\ UNCHANGED <<tab, nelem, heap>> /\ RaceFrame

(* zc_hashtable_put: the new entry, filled while no other thread can reach it. *)
PutAlloc(t) ==
    /\ At(t, "alloc")
    /\ FreeIds(heap) # {}
    /\ \E p \in {Calloc(heap)} :
          /\ heap' = [heap EXCEPT ![p] = [hash_key |-> hash_fn(Th(t).key), key |-> Th(t).key,
                                          value |-> Th(t).value, next |-> NULL,
                                          prev |-> NULL]]
          /\ SetTh(t, [Th(t) EXCEPT !.pc = "idx", !.p = p, !.ins = p])
    /\ UNCHANGED <<tab, tab_size, nelem>> /\ RaceFrame

PutIndex(t) ==
    /\ At(t, "idx")
    /\ \E h \in ReadHash(Th(t).p) :
          SetTh(t, [Th(t) EXCEPT !.pc = "l1", !.i = UMod(h, tab_size)])
    /\ MemSame /\ RaceFrame

(* if ((a_table->tab)[i]) (a_table->tab)[i]->prev = p; *)
PutLinkPrev(t) ==
    /\ At(t, "l1")
    /\ \E h \in ReadTab(Th(t).i) :
          IF h # NULL
          THEN heap' = WritePrev(heap, h, Th(t).p)
               /\ SetTh(t, [Th(t) EXCEPT !.pc = "l2", !.c = TRUE])
          ELSE heap' = heap /\ Goto(t, "set")
    /\ UNCHANGED <<tab, tab_size, nelem>> /\ RaceFrame

(* p->next = (a_table->tab)[i]; *)
PutLinkNext(t) ==
    /\ At(t, "l2")
    /\ \E h \in ReadTab(Th(t).i) : heap' = WriteNext(heap, Th(t).p, h)
    /\ SetTh(t, [Th(t) EXCEPT !.pc = "set", !.c = FALSE])
    /\ UNCHANGED <<tab, tab_size, nelem>> /\ RaceFrame

PutSetHead(t) ==
    /\ At(t, "set")
    /\ tab' = WriteTab(Th(t).i, Th(t).p)
    /\ Goto(t, "inc_r")
    /\ UNCHANGED <<tab_size, nelem, heap>> /\ RaceFrame

CountAfterInsertSame(n) == n

CountAfterInsert(n) == n + 1

PutCountRead(t) ==
    /\ At(t, "inc_r")
    /\ SetTh(t, [Th(t) EXCEPT !.pc = "inc_w", !.n = nelem])
    /\ MemSame /\ RaceFrame

PutCountWrite(t) ==
    /\ At(t, "inc_w")
    /\ nelem' = CountAfterInsert(Th(t).n)
    /\ Return(t, 0)
    /\ UNCHANGED <<tab, tab_size, heap>> /\ RaceFrame

(* zc_hashtable_remove, the key is found.
   if (p->next) p->next->prev = p->prev; *)
RemoveLinkPrev(t) ==
    /\ At(t, "un1")
    /\ \E nx \in ReadNext(Th(t).p), pv \in ReadPrev(Th(t).p) :
          heap' = IF nx # NULL THEN WritePrev(heap, nx, pv) ELSE heap
    /\ Goto(t, "un2")
    /\ UNCHANGED <<tab, tab_size, nelem>> /\ RaceFrame

(* if (p->prev) p->prev->next = p->next; else ... *)
RemoveLinkNext(t) ==
    /\ At(t, "un2")
    /\ \E nx \in ReadNext(Th(t).p), pv \in ReadPrev(Th(t).p) :
          IF pv # NULL
          THEN heap' = WriteNext(heap, pv, nx) /\ Goto(t, "free")
          ELSE heap' = heap /\ Goto(t, "un3")
    /\ UNCHANGED <<tab, tab_size, nelem>> /\ RaceFrame

(* i = p->hash_key % a_table->tab_size; a_table->tab[i] = p->next; *)
RemoveSetHead(t) ==
    /\ At(t, "un3")
    /\ \E h \in ReadHash(Th(t).p), nx \in ReadNext(Th(t).p) :
          tab' = WriteTab(UMod(h, tab_size), nx)
    /\ Goto(t, "free")
    /\ UNCHANGED <<tab_size, nelem, heap>> /\ RaceFrame

RemoveFree(t) ==
    /\ At(t, "free")
    /\ heap' = [heap EXCEPT ![Th(t).p] = Free]
    /\ Goto(t, "dec_r")
    /\ UNCHANGED <<tab, tab_size, nelem>> /\ RaceFrame

RemoveCountRead(t) ==
    /\ At(t, "dec_r")
    /\ SetTh(t, [Th(t) EXCEPT !.pc = "dec_w", !.n = nelem])
    /\ MemSame /\ RaceFrame

(* nelem is a size_t: 0 - 1 is SIZE_MAX, which the model writes as -1. *)
RemoveCountWrite(t) ==
    /\ At(t, "dec_w")
    /\ nelem' = Th(t).n - 1
    /\ Return(t, 0)
    /\ UNCHANGED <<tab, tab_size, heap>> /\ RaceFrame

InitRace ==
    /\ InitNew(1, TRUE, TRUE, FALSE, FALSE, TRUE, TRUE)
    /\ \E m \in {"serial", "free"} : race = [NoRace EXCEPT !.mode = m]
    /\ pc = 0

NextRace ==
    \/ RaceSetup
    \/ \E t \in Threads :
          \/ RaceCall(t)
          \/ ScanHash(t) \/ ScanHead(t) \/ ScanCmp(t) \/ ScanAdv(t)
          \/ PutSetKey(t) \/ PutSetValue(t) \/ PutLoad(t)
          \/ RehashNew(t) \/ RehashLoop(t) \/ RehashChainStep(t)
          \/ RehashClearNext(t) \/ RehashClearPrev(t) \/ RehashIndex(t)
          \/ RehashLinkPrev(t) \/ RehashLinkNext(t) \/ RehashSetHead(t)
          \/ RehashFreeTab(t) \/ RehashSetTab(t) \/ RehashSetSize(t)
          \/ PutAlloc(t) \/ PutIndex(t) \/ PutLinkPrev(t) \/ PutLinkNext(t)
          \/ PutSetHead(t) \/ PutCountRead(t) \/ PutCountWrite(t)
          \/ RemoveLinkPrev(t) \/ RemoveLinkNext(t) \/ RemoveSetHead(t)
          \/ RemoveFree(t) \/ RemoveCountRead(t) \/ RemoveCountWrite(t)

SpecRace == InitRace /\ [][NextRace]_vars

(***************************************************************************)
(* A client of a table that owns its keys and values: both destructors are *)
(* set.  The client passes a key or value object it still holds: one it    *)
(* has not given to the table (or got back from a failed Put), or the very *)
(* object stored in the entry the Put matches.  freed records every object *)
(* the destructors are called on.  Once an entry holds a destroyed object, *)
(* a call that compares keys (Put, Remove) reads freed memory; the client  *)
(* makes no such call, while Clean and zc_hashtable_del, which only pass   *)
(* the stored pointers to the destructors, still run.                      *)
(***************************************************************************)
FreshKey(k) == k \notin freed.keys /\ k \notin StoredKeys
FreshValue(v) == v \notin freed.values /\ v \notin StoredValues
StoredFor(k) == GetEntryIn(Cur, k)
MayPassKey(k) ==
    IF FreshKey(k) THEN TRUE
    ELSE StoredFor(k) # NULL /\ heap[StoredFor(k)].key = k
MayPassValue(k, v) ==
    IF FreshValue(v) THEN TRUE
    ELSE StoredFor(k) # NULL /\ heap[StoredFor(k)].value = v

Dangling ==
    \E p \in Live(Cur) : heap[p].key \in freed.keys \/ heap[p].value \in freed.values

KeysIn(log) == {log[n].key : n \in {m \in 1..Len(log) : log[m].fn = "key_del_fn"}}
ValuesIn(log) == {log[n].value : n \in {m \in 1..Len(log) : log[m].fn = "value_del_fn"}}
Twice(log) == {log[n] : n \in {m \in 1..Len(log) : \E l \in 1..Len(log) : l # m /\ log[l] = log[m]}}
Freed(log, aliased) ==
    [keys |-> freed.keys \cup KeysIn(log),
     values |-> freed.values \cup ValuesIn(log),
     keys_again |-> freed.keys_again \cup (freed.keys \cap KeysIn(log))
                        \cup {c.key : c \in {d \in Twice(log) : d.fn = "key_del_fn"}},
     values_again |-> freed.values_again \cup (freed.values \cap ValuesIn(log))
                        \cup {c.value : c \in {d \in Twice(log) : d.fn = "value_del_fn"}},
     aliased |-> freed.aliased \/ aliased]

InitOwner ==
    /\ \E a_size \in {1, 2} : InitNew(a_size, TRUE, TRUE, TRUE, TRUE, TRUE, TRUE)
    /\ race = NoRace
    /\ pc = 0

OwnerPut ==
    /\ alive /\ ~Dangling
    /\ \E k \in Keys, v \in Values :
          /\ MayPassKey(k)
          /\ MayPassValue(k, v)
          /\ \E tab_ok \in BOOLEAN, p_ok \in BOOLEAN : zc_hashtable_put(k, v, tab_ok, p_ok)
          /\ freed' = Freed(del_log', ~FreshKey(k) \/ ~FreshValue(v))
    /\ UNCHANGED pc

OwnerRemove ==
    /\ alive /\ ~Dangling
    /\ \E k \in Keys : zc_hashtable_remove(k)
    /\ freed' = Freed(del_log', FALSE)
    /\ UNCHANGED pc

OwnerClean == zc_hashtable_clean /\ freed' = Freed(del_log', FALSE) /\ UNCHANGED pc

OwnerDel == zc_hashtable_del /\ freed' = Freed(del_log', FALSE) /\ UNCHANGED pc

NextOwner == OwnerPut \/ OwnerRemove \/ OwnerClean \/ OwnerDel

SpecOwner == InitOwner /\ [][NextOwner]_vars

(***************************************************************************)
(* Vocabulary of the properties                                            *)
(***************************************************************************)
CurNext == Tbl(tab', tab_size', nelem', heap')
SomeKey(s) == KeyObj(s, 1)
(* The keys and values the caller of the current state passes. *)
CallKeys == IF pc <= 0 THEN ClientKeys ELSE ExampleKeys
CallValues == IF pc <= 0 THEN Values ELSE ExampleValues
Present(t, k) == GetEntryIn(t, k) # NULL
Threshold(n, size) == n * LoadDen > size * LoadNum
TableUnchanged == UNCHANGED <<tab, tab_size, nelem, heap>>
Count(log, c) == Cardinality({n \in 1..Len(log) : log[n] = c})

(* C1: on a fresh table, after successful Puts only (keys may repeat, rehashes
   may occur), count is the number of distinct key strings put and Get of each
   returns the value of the most recent Put of that string. *)
C1_PutsCountAndLastValue ==
    (alive /\ put_hist.valid) =>
        /\ nelem = Cardinality({s \in AllStrs : put_hist.value[s] # NULL})
        /\ \A k \in CallKeys :
              put_hist.value[k.str] # NULL => zc_hashtable_get(k) = put_hist.value[k.str]

C1_Witness ==
    /\ alive /\ put_hist.valid /\ pc = 0
    /\ last = Result("put", "update", 0)
    /\ nelem = 3 /\ tab_size = 2

(* C2: Remove(k) of a present key makes Get(k) NotFound and lowers count by one;
   Remove(k) of an absent key leaves count, capacity, the bucket array and every
   chain as they were. *)
C2_Remove ==
    [][last'.op = "remove" =>
          \A k \in CallKeys :
              zc_hashtable_remove(k) =>
                  IF Present(Cur, k)
                  THEN GetIn(CurNext, k) = NULL /\ nelem' = nelem - 1
                  ELSE TableUnchanged]_vars

C2_Witness ==
    /\ last = Result("remove", "removed", 0)
    /\ nelem = 2 /\ tab_size = 2 /\ pc = 0

(* C3 as stated: a successful Put that brings count above capacity * 1.3 (the
   capacity before the Put) leaves every earlier key found and has doubled the
   capacity. *)
(* A step that is a successful Put of a new key (both allocations succeed). *)
InsertStep == last'.op = "put" /\ last'.rc = 0 /\ nelem' = nelem + 1
PutInserted(k, v) == zc_hashtable_put(k, v, TRUE, TRUE)

C3_AsStated ==
    [][(InsertStep /\ Threshold(nelem', tab_size)) =>
          \A k \in CallKeys, v \in CallValues :
              PutInserted(k, v)
              => /\ tab_size' = 2 * tab_size
                 /\ \A j \in CallKeys : Present(Cur, j) => Present(CurNext, j)]_vars

(* C3, amended: a successful Put of a new key that starts with count above
   capacity * 1.3 leaves every earlier key found, with its value, and has exactly
   doubled the capacity; a successful Put that starts with count at or below
   capacity * 1.3 leaves the capacity as it was, also when it brings count above. *)
C3_RehashBeforeInsert ==
    [][InsertStep =>
          \A k \in {j \in CallKeys : ~Present(Cur, j)}, v \in CallValues :
              PutInserted(k, v)
              => /\ tab_size' = IF Threshold(nelem, tab_size) THEN 2 * tab_size ELSE tab_size
                 /\ \A j \in CallKeys :
                       Present(Cur, j) =>
                           Present(CurNext, j) /\ GetIn(CurNext, j) = GetIn(Cur, j)]_vars

C3_Witness ==
    /\ last = Result("put", "rehash_insert", 0)
    /\ nelem = 7 /\ tab_size = 8

(* C4 as stated: after New(4), Put("a",1), Put("b",2), Put("a",3): count 2,
   Get("a") = 3, Get("b") = 2; after then putting "c", "d", "e" (here with the
   values 1, 2, 3): capacity 8 and all five keys retrievable. *)
ExampleAfterThree ==
    /\ nelem = 2
    /\ zc_hashtable_get(SomeKey(StrA)) = 3
    /\ zc_hashtable_get(SomeKey(StrB)) = 2

ExampleAllFive ==
    /\ nelem = 5
    /\ zc_hashtable_get(SomeKey(StrA)) = 3
    /\ zc_hashtable_get(SomeKey(StrB)) = 2
    /\ zc_hashtable_get(SomeKey(StrC)) = 1
    /\ zc_hashtable_get(SomeKey(StrD)) = 2
    /\ zc_hashtable_get(SomeKey(StrE)) = 3

C4_AsStated ==
    /\ pc = 4 => ExampleAfterThree
    /\ pc = ScriptDone => tab_size = 8 /\ ExampleAllFive

(* C4, amended: after the three Puts count is 2, Get("a") = 3 and Get("b") = 2;
   after then putting "c", "d", "e" (count 5, which is not above 4 * 1.3) the
   capacity is still 4 and all five keys are retrievable. *)
C4_Example ==
    /\ pc = 4 => ExampleAfterThree
    /\ pc = ScriptDone => tab_size = 4 /\ ExampleAllFive

C4_Witness == pc = ScriptDone /\ nelem = 5 /\ last = Result("put", "insert", 0)

(* C5 as stated: a Put that fails because the entry cannot be allocated leaves
   capacity, bucket array, chains, count and mappings as they were, also when it
   started with count above capacity * 1.3. *)
EntryAllocFails ==
    last'.op = "put" /\ last'.path \in {"calloc_fail", "rehash_calloc_fail"}

PutFailsAtEntry == \E k \in CallKeys, v \in CallValues : zc_hashtable_put(k, v, TRUE, FALSE)

C5_AsStated == [][(EntryAllocFails /\ PutFailsAtEntry) => TableUnchanged]_vars

(* C5, amended: a Put that fails because the entry cannot be allocated returns
   an error, adds no entry and leaves count, every entry's hash, key and value
   and every key-to-value mapping as they were; capacity, the bucket array and
   the chains are unchanged too when the call started with count at or below
   capacity * 1.3, and otherwise the rehash has been done and is kept: capacity
   is doubled. *)
C5_FailedPutKeepsMapping ==
    [][(EntryAllocFails /\ PutFailsAtEntry) =>
          /\ last'.rc = -1
          /\ nelem' = nelem
          /\ \A p \in EntryIds :
                /\ heap'[p].hash_key = heap[p].hash_key
                /\ heap'[p].key = heap[p].key
                /\ heap'[p].value = heap[p].value
          /\ \A j \in CallKeys : GetEntryIn(CurNext, j) = GetEntryIn(Cur, j)
          /\ IF Threshold(nelem, tab_size)
             THEN tab_size' = 2 * tab_size
             ELSE TableUnchanged]_vars

C5_Witness ==
    /\ last = Result("put", "rehash_calloc_fail", -1)
    /\ nelem = 6 /\ tab_size = 8

(* C6: when the doubled bucket array cannot be allocated, rehash reports
   failure and leaves the table alone, and the Put returns an error, adds no
   entry and leaves capacity, count, the bucket array and every entry's links as
   they were. *)
PutFailsAtRehash ==
    \E k \in CallKeys :
        /\ ~Present(Cur, k)
        /\ \E v \in CallValues, p_ok \in BOOLEAN : zc_hashtable_put(k, v, FALSE, p_ok)

C6_RehashAllocFailure ==
    [][(last'.op = "put" /\ Threshold(nelem, tab_size) /\ PutFailsAtRehash) =>
          /\ zc_hashtable_rehash(Cur, FALSE) = [rc |-> -1, t |-> Cur]
          /\ last'.rc = -1
          /\ TableUnchanged]_vars

C6_Witness ==
    /\ last = Result("put", "rehash_fail", -1)
    /\ nelem = 6 /\ tab_size = 4

(* C7: with no mutation in between, Begin and then repeated Next return every
   live entry exactly once and then End, after at most count steps; on an empty
   table Begin returns Empty. *)
RECURSIVE IterFrom(_, _, _)
IterFrom(t, e, fuel) ==
    IF e = NULL THEN <<>>
    ELSE IF fuel = 0 THEN <<e>>
    ELSE <<e>> \o IterFrom(t, NextIn(t, e), fuel - 1)

(* The entries returned before End, cut off one past count. *)
Iteration(t) == IterFrom(t, BeginIn(t), t.nelem)
Allocated == {p \in EntryIds : heap[p] # Free}

C7_Iteration ==
    alive =>
        /\ Len(Iteration(Cur)) = nelem
        /\ Range(Iteration(Cur)) = Allocated
        /\ Cardinality(Range(Iteration(Cur))) = Len(Iteration(Cur))
        /\ nelem = 0 => zc_hashtable_begin = NULL

C7_Witness ==
    /\ alive /\ last.op = "remove"
    /\ nelem = 4 /\ tab_size = 4
    /\ tab[2] = NULL /\ tab[1] # NULL /\ tab[3] # NULL
    /\ Len(Iteration(Cur)) = 4

(* C8: after Clean count is 0, every bucket head is empty, capacity is as
   before, Get of any key returns NotFound and the table is as a fresh table of
   that capacity; a second Clean changes nothing; a Put after Clean inserts as
   on a fresh table of that capacity and is retrievable. *)
FreshTable(size) == Tbl(EmptyTab(size), size, 0, EmptyHeap)

C8_Clean ==
    [][/\ (last'.op = "clean" /\ zc_hashtable_clean) =>
              /\ nelem' = 0
              /\ \A i \in 0..(tab_size - 1) : tab'[i] = NULL
              /\ tab_size' = tab_size
              /\ \A k \in CallKeys : GetIn(CurNext, k) = NULL
              /\ CurNext = FreshTable(tab_size)
              /\ last.op = "clean" => TableUnchanged
       /\ (last.op = "clean" /\ last'.op = "put") =>
              \A k \in CallKeys, v \in CallValues :
                  zc_hashtable_put(k, v, TRUE, TRUE) =>
                      /\ last'.rc = 0
                      /\ nelem' = 1
                      /\ GetIn(CurNext, k) = v
                      /\ CurNext = PutCall(FreshTable(tab_size), key_del_fn, value_del_fn,
                                           k, v, TRUE, TRUE).t]_vars

C8_Witness ==
    /\ last.op = "clean"
    /\ Len(del_log) = 4 /\ tab_size = 2 /\ nelem = 0

(* C9: Put with a key equal to, but not the same object as, the key of an
   existing entry calls the key destructor (if configured) exactly once on the
   old key and the value destructor (if configured) exactly once on the old
   value, makes no other destructor call, stores the new key and value in that
   same entry, leaves count unchanged and creates no entry. *)
C9_UpdateDestroysOld ==
    [][(last'.op = "put" /\ last'.rc = 0) =>
          \A p \in EntryIds, k \in CallKeys :
              (heap[p] # Free /\ heap[p].key # k /\ equal_fn(k, heap[p].key)) =>
                      \A v \in CallValues :
                          zc_hashtable_put(k, v, TRUE, TRUE) =>
                             /\ Count(del_log', KeyDel(heap[p].key)) = IF key_del_fn THEN 1 ELSE 0
                             /\ Count(del_log', ValueDel(heap[p].value)) = IF value_del_fn THEN 1 ELSE 0
                             /\ Len(del_log') = Count(del_log', KeyDel(heap[p].key))
                                                + Count(del_log', ValueDel(heap[p].value))
                             /\ heap'[p].key = k
                             /\ heap'[p].value = v
                             /\ nelem' = nelem
                             /\ UNCHANGED <<tab, tab_size>>
                             /\ \A q \in EntryIds \ {p} : heap'[q] = heap[q]
                             /\ GetEntryIn(CurNext, k) = p]_vars

C9_Witness ==
    /\ last = Result("put", "update", 0)
    /\ key_del_fn /\ value_del_fn
    /\ Len(del_log) = 2 /\ nelem = 1

(* C10: in every state of a table that exists, count is the number of entry
   nodes met by walking all bucket chains. *)
C10_CountIsWalk == alive => nelem = Len(Walk(Cur))

C10_Witness ==
    /\ alive /\ last = Result("put", "rehash_calloc_fail", -1)
    /\ nelem = 2 /\ tab_size = 2 /\ Len(Walk(Cur)) = 2

(* C11: in every state of a table that exists, every entry is linked into the
   chain of the bucket whose index is the entry's cached hash modulo the
   current capacity, and every chain holds only such entries. *)
InBucket(t, i) == Range(ChainSeq(t.heap, t.tab[i]))
BucketOf(t, p) == UMod(t.heap[p].hash_key, t.tab_size)

C11_EntryInHashedBucket ==
    alive =>
        /\ \A i \in 0..(tab_size - 1) : \A p \in InBucket(Cur, i) : BucketOf(Cur, p) = i
        /\ \A p \in Allocated : p \in InBucket(Cur, BucketOf(Cur, p))

C11_Witness ==
    /\ alive /\ pc = 0 /\ last = Result("put", "rehash_insert", 0)
    /\ tab_size = 2 /\ nelem = 3
    /\ tab[0] # NULL /\ tab[1] # NULL

(* C12 as stated: the Begin/Next sequence yields entries in non-decreasing
   bucket-index order and, within each bucket, an entry inserted later comes
   before every entry inserted earlier. *)
Pos(seq, x) == CHOOSE n \in 1..Len(seq) : seq[n] = x
Before(seq, x, y) == Pos(seq, x) < Pos(seq, y)

BucketOrdered(t, it) ==
    \A m \in 1..Len(it), n \in 1..Len(it) :
        m < n => BucketOf(t, it[m]) <= BucketOf(t, it[n])

RecentFirst(t, it, ins) ==
    \A m \in 1..Len(it), n \in 1..Len(it) :
        (m < n /\ BucketOf(t, it[m]) = BucketOf(t, it[n])) => Before(ins, it[n], it[m])

C12_AsStated ==
    alive =>
        /\ BucketOrdered(Cur, Iteration(Cur))
        /\ RecentFirst(Cur, Iteration(Cur), ins_seq)

(* No rehash has run on the table: its capacity is still the smallest one it can
   have been created with (capacity changes by rehash only). *)
NoRehashYet(size) == IF pc = 0 THEN size = 1 ELSE IF pc = -1 THEN size = 2 ELSE size = 4

(* C12, amended: the Begin/Next sequence yields entries in non-decreasing
   bucket-index order.  A call that does not rehash keeps the relative order of
   the entries that stay, and a rehash reverses the relative order of the
   entries that share a bucket after it; an entry the call inserts comes before
   every other entry of its bucket.  While no rehash has run, the order within
   each bucket is most-recently-inserted-first. *)
C12_OrderReversedByRehash ==
    [][alive' =>
          \A it \in {Iteration(Cur)}, it2 \in {Iteration(CurNext)} :
              /\ BucketOrdered(CurNext, it2)
              /\ \A p \in Range(it) \cap Range(it2), q \in Range(it) \cap Range(it2) :
                    (p # q /\ BucketOf(CurNext, p) = BucketOf(CurNext, q)) =>
                        (Before(it2, p, q) <=>
                            IF tab_size' = tab_size THEN Before(it, p, q)
                            ELSE Before(it, q, p))
              /\ \A p \in Range(it2) \ Range(it), q \in Range(it) \cap Range(it2) :
                    BucketOf(CurNext, p) = BucketOf(CurNext, q) => Before(it2, p, q)
              /\ NoRehashYet(tab_size') => RecentFirst(CurNext, it2, ins_seq')]_vars

C12_Witness ==
    /\ alive /\ last = Result("put", "rehash_insert", 0)
    /\ ~RecentFirst(Cur, Iteration(Cur), ins_seq)

(* C13: zc_hashtable_new returns no table when a_size is 0, hash_fn or equal_fn
   is absent, or calloc of the table record or of the bucket array fails;
   otherwise it returns a table with count 0, capacity a_size and every bucket
   empty, with or without destructors. *)
NewMustFail(c) ==
    c.a_size = 0 \/ ~c.hash_fn \/ ~c.equal_fn \/ ~c.table_ok \/ ~c.tab_ok

C13_New ==
    last.op = "new" =>
        IF NewMustFail(new_call)
        THEN ~alive /\ Allocated = {}
        ELSE /\ alive
             /\ nelem = 0
             /\ tab_size = new_call.a_size
             /\ DOMAIN tab = 0..(new_call.a_size - 1)
             /\ \A i \in DOMAIN tab : tab[i] = NULL
             /\ zc_hashtable_begin = NULL
             /\ key_del_fn = new_call.key_del_fn
             /\ value_del_fn = new_call.value_del_fn

C13_Witness ==
    /\ last = Result("new", "null", -1) /\ ~alive
    /\ new_call.a_size = 2 /\ new_call.hash_fn /\ new_call.equal_fn
    /\ new_call.table_ok /\ ~new_call.tab_ok
    /\ new_call.key_del_fn /\ new_call.value_del_fn

(* C14 as stated: while the table exists no call lowers the capacity; each call
   leaves it as it was or exactly doubles it, and only a Put that inserts a new
   key changes it. *)
C14_AsStated ==
    [][alive' =>
          \/ tab_size' = tab_size
          \/ /\ tab_size' = 2 * tab_size
             /\ last'.op = "put" /\ last'.rc = 0 /\ nelem' = nelem + 1]_vars

(* A step that is a Put of a key that is not in the table, whatever its outcome. *)
PutOfNewKey ==
    \E k \in CallKeys :
        /\ ~Present(Cur, k)
        /\ \E v \in CallValues, tab_ok \in BOOLEAN, p_ok \in BOOLEAN :
              zc_hashtable_put(k, v, tab_ok, p_ok)

(* C14, amended: while the table exists no call lowers the capacity; each call
   leaves it as it was or exactly doubles it, and only a Put of a key that is
   not in the table changes it: one that inserts the key, or one that fails to
   allocate the entry after it has rehashed. *)
C14_CapacityOnlyDoubles ==
    [][alive' =>
          \/ tab_size' = tab_size
          \/ /\ tab_size' = 2 * tab_size
             /\ last'.op = "put"
             /\ PutOfNewKey
             /\ \/ last'.rc = 0 /\ nelem' = nelem + 1
                \/ last'.rc = -1 /\ nelem' = nelem /\ last'.path = "rehash_calloc_fail"]_vars

C14_Witness ==
    /\ alive /\ pc = 0 /\ last = Result("put", "rehash_calloc_fail", -1)
    /\ tab_size = 2 /\ nelem = 2 /\ key_del_fn /\ ~value_del_fn

(* The entries reached from the bucket heads (a walk that stops after HeapSize
   links, since interleaved calls can leave a chain cyclic). *)
RECURSIVE ChainUpTo(_, _, _)
ChainUpTo(h, p, fuel) ==
    IF p = NULL \/ fuel = 0 THEN {}
    ELSE IF h[p] = Free THEN {}
    ELSE {p} \cup ChainUpTo(h, h[p].next, fuel - 1)

Reached == UNION {ChainUpTo(heap, tab[i], HeapSize) : i \in 0..(tab_size - 1)}

AllReturned == \A t \in Threads : Th(t).pc = "done"
RaceQuiet == \A t \in Threads : ~InCall(t)

(* An entry that a Put inserted, returning success, cannot be reached, though
   no Remove of its key has run. *)
LostEntry ==
    \E t \in Threads :
        /\ Th(t).pc = "done" /\ Th(t).op = "put" /\ Th(t).rc = 0 /\ Th(t).ins # NULL
        /\ Th(t).ins \notin Reached
        /\ \A u \in Threads : ~(Th(u).op = "remove" /\ equal_fn(Th(u).key, Th(t).key))

CountWrong == nelem # Cardinality(Reached)

(* C15: with the threads' calls serialized by the caller, whenever no thread is
   inside a call every inserted entry is reachable and count is the number of
   reachable entries (and no thread has dereferenced NULL); without the
   serialization a state with a lost entry or a wrong count is reachable, which
   is C15_Witness. *)
C15_SerializedIsConsistent ==
    (race.mode = "serial" /\ RaceQuiet) =>
        /\ ~LostEntry
        /\ ~CountWrong
        /\ ~race.crashed /\ ~race.tab_freed

(* Put/Put on keys of one bucket, not serialized: one inserted entry is lost. *)
C15_Witness ==
    /\ race.mode = "free" /\ AllReturned
    /\ \A t \in Threads : Th(t).op = "put" /\ Th(t).ins # NULL
    /\ tab_size = 1
    /\ LostEntry

(* Put/Remove on keys of one bucket, not serialized: count is wrong. *)
RacePutRemoveCountWrong ==
    /\ race.mode = "free" /\ AllReturned
    /\ Th(2).op = "remove"
    /\ tab_size = 1
    /\ CountWrong

(* A Put that rehashes against another Put, not serialized: the other Put's
   entry is lost. *)
RaceRehashLosesEntry ==
    /\ race.mode = "free" /\ AllReturned
    /\ \A t \in Threads : Th(t).op = "put" /\ Th(t).ins # NULL
    /\ tab_size = 2
    /\ Th(2).ins \notin Reached

(* With the calls serialized the two-thread steps amount to the whole calls. *)
SerialReachesAll ==
    /\ race.mode = "serial" /\ AllReturned
    /\ tab_size = 2 /\ nelem = 3 /\ Cardinality(Reached) = 3

(* C16: a Put of a key that is not present calls the rehash if and only if
   count > capacity * 1.3 holds for the count and capacity before the call, and
   the new entry is then linked at the head of the bucket its hash selects under
   the doubled capacity; a Put of a key that is present never rehashes, whatever
   the load. *)
RehashPaths == {"rehash_fail", "rehash_insert", "rehash_calloc_fail"}

(* The calloc outcomes that a call which took the branch named path has met. *)
TabOkOf(path) == path # "rehash_fail"
EntryOkOf(path) == path \notin {"calloc_fail", "rehash_calloc_fail"}

(* Every step of a Put is the Put of some key and value with those outcomes. *)
PutStepsAreCovered ==
    [][last'.op = "put" =>
          \E k \in CallKeys, v \in CallValues :
              zc_hashtable_put(k, v, TabOkOf(last'.path), EntryOkOf(last'.path))]_vars

C16_RehashIffOverLoad ==
    [][last'.op = "put" =>
          \A k \in CallKeys, v \in CallValues :
              zc_hashtable_put(k, v, TabOkOf(last'.path), EntryOkOf(last'.path)) =>
                  IF Present(Cur, k)
                  THEN /\ last'.path = "update"
                       /\ UNCHANGED <<tab, tab_size>>
                  ELSE /\ last'.path \in RehashPaths <=> Threshold(nelem, tab_size)
                       /\ last'.path = "rehash_insert" =>
                             /\ tab_size' = 2 * tab_size
                             /\ \E p \in {GetEntryIn(CurNext, k)} :
                                   /\ p # NULL /\ heap[p] = Free
                                   /\ tab'[UMod(hash_fn(k), tab_size')] = p
                       /\ last'.path \notin RehashPaths => tab_size' = tab_size]_vars

C16_Witness ==
    /\ alive /\ pc = 0 /\ last = Result("put", "update", 0)
    /\ Threshold(nelem, tab_size)
    /\ tab_size = 1 /\ nelem = 2

(* C17: a successful rehash exactly doubles the capacity and keeps the entries:
   every entry is still there with its cached hash, key and value, none is lost
   or met twice, count is as before, and each entry is in the chain of bucket
   cached hash modulo the new capacity. *)
RehashKeeps(t, u) ==
    /\ u.tab_size = 2 * t.tab_size
    /\ DOMAIN u.tab = 0..(u.tab_size - 1)
    /\ u.nelem = t.nelem
    /\ Range(Walk(u)) = Range(Walk(t))
    /\ Len(Walk(u)) = Len(Walk(t))
    /\ \A p \in Range(Walk(t)) :
          /\ u.heap[p].hash_key = t.heap[p].hash_key
          /\ u.heap[p].key = t.heap[p].key
          /\ u.heap[p].value = t.heap[p].value
          /\ p \in InBucket(u, BucketOf(u, p))
    /\ \A p \in EntryIds \ Range(Walk(t)) : u.heap[p] = t.heap[p]

C17_RehashKeepsEntries ==
    [][last'.path \in {"rehash_calloc_fail", "rehash_insert"} =>
          \A r \in {zc_hashtable_rehash(Cur, TRUE)} :
              /\ r.rc = 0
              /\ RehashKeeps(Cur, r.t)
              /\ last'.path = "rehash_calloc_fail" => CurNext = r.t
              /\ last'.path = "rehash_insert" =>
                    /\ tab_size' = r.t.tab_size
                    /\ \A p \in Range(Walk(Cur)) :
                          /\ heap'[p].hash_key = heap[p].hash_key
                          /\ heap'[p].key = heap[p].key
                          /\ heap'[p].value = heap[p].value
                          /\ p \in InBucket(CurNext, BucketOf(CurNext, p))]_vars

C17_Witness ==
    /\ alive /\ last = Result("put", "rehash_calloc_fail", -1)
    /\ tab_size = 8 /\ nelem = 6
    /\ Cardinality({i \in DOMAIN tab : tab[i] # NULL}) = 6

(***************************************************************************)
(* C18: every bucket chain is a well-formed, acyclic doubly linked list    *)
(***************************************************************************)
RECURSIVE EndsWithin(_, _, _)
(* Following next from p reaches NULL in at most fuel steps, over live entries. *)
EndsWithin(h, p, fuel) ==
    IF p = NULL THEN TRUE
    ELSE IF fuel = 0 THEN FALSE
    ELSE IF h[p] = Free THEN FALSE
    ELSE EndsWithin(h, h[p].next, fuel - 1)

WellFormedChains(t) ==
    /\ \A i \in 0..(t.tab_size - 1) :
          /\ EndsWithin(t.heap, t.tab[i], HeapSize)
          /\ t.tab[i] # NULL => t.heap[t.tab[i]].prev = NULL
    /\ \A p \in EntryIds :
          t.heap[p] # Free =>
              /\ t.heap[p].next # NULL =>
                    (t.heap[t.heap[p].next] # Free /\ t.heap[t.heap[p].next].prev = p)
              /\ t.heap[p].prev # NULL =>
                    (t.heap[t.heap[p].prev] # Free /\ t.heap[t.heap[p].prev].next = p)

(* C18: in every state reachable by Put, Remove, Clean and rehash, each bucket
   chain ends, its head has prev = NULL, e.next.prev = e for every entry with a
   successor and e.prev.next = e for every entry with a predecessor. *)
C18_ChainsWellFormed == alive => WellFormedChains(Cur)

(* A Remove has taken the middle entry (the second allocated) out of a chain of
   three: the first and the third entry are now linked to each other. *)
C18_Witness ==
    /\ alive /\ pc = -1 /\ last = Result("remove", "removed", 0)
    /\ nelem = 2 /\ heap[2] = Free /\ ins_seq = <<1, 3>>
    /\ tab[1] = 3 /\ heap[3].next = 1 /\ heap[1].prev = 3 /\ heap[1].next = NULL

(* Steps that remove an entry with both a predecessor and a successor, and
   steps that remove a head or a tail of a longer chain, all occur. *)
RemovesMiddle ==
    \E p \in EntryIds :
        /\ heap[p] # Free /\ heap'[p] = Free /\ last'.path = "removed"
        /\ heap[p].next # NULL /\ heap[p].prev # NULL
RemovesHead ==
    \E p \in EntryIds :
        /\ heap[p] # Free /\ heap'[p] = Free /\ last'.path = "removed"
        /\ heap[p].next # NULL /\ heap[p].prev = NULL
RemovesTail ==
    \E p \in EntryIds :
        /\ heap[p] # Free /\ heap'[p] = Free /\ last'.path = "removed"
        /\ heap[p].next = NULL /\ heap[p].prev # NULL
NeverRemovesMiddle == [][~RemovesMiddle]_vars
NeverRemovesHead == [][~RemovesHead]_vars
NeverRemovesTail == [][~RemovesTail]_vars

(***************************************************************************)
(* C19: Put(k, v) and Remove(k) change the mapping of k only               *)
(***************************************************************************)
(* GetEntry(k2) returns the same entry before and after the step, and that
   entry holds the same key object and the same value. *)
SameMapping(k2) ==
    \E p \in {GetEntryIn(Cur, k2)} :
        /\ GetEntryIn(CurNext, k2) = p
        /\ p # NULL => (/\ heap'[p] # Free
                        /\ heap'[p].key = heap[p].key
                        /\ heap'[p].value = heap[p].value)

OthersKept(k) == \A k2 \in CallKeys : ~equal_fn(k2, k) => SameMapping(k2)

(* C19: a Put(k, v) or Remove(k), whatever its outcome (update, insertion, with
   or without a rehash, or failure), leaves GetEntry(k2) the same entry with the
   same key and value for every k2 that equal_fn does not equate with k. *)
C19_OtherKeysUntouched ==
    [][/\ last'.op = "put" =>
              \A k \in CallKeys, v \in CallValues :
                  zc_hashtable_put(k, v, TabOkOf(last'.path), EntryOkOf(last'.path)) =>
                      OthersKept(k)
       /\ last'.op = "remove" =>
              \A k \in CallKeys : zc_hashtable_remove(k) => OthersKept(k)]_vars

(* A Put of a new key has rehashed a table of one bucket in which two other
   keys shared the bucket; both are still found, and share bucket 1. *)
C19_Witness ==
    /\ alive /\ pc = 0 /\ last = Result("put", "rehash_insert", 0)
    /\ tab_size = 2 /\ nelem = 3
    /\ GetEntryIn(Cur, SomeKey(StrA)) # NULL /\ GetEntryIn(Cur, SomeKey(StrE)) # NULL
    /\ GetEntryIn(Cur, SomeKey(StrZ5)) = 3
    /\ GetEntryIn(Cur, SomeKey(StrA)) \in InBucket(Cur, 1)
    /\ GetEntryIn(Cur, SomeKey(StrE)) \in InBucket(Cur, 1)

(***************************************************************************)
(* C20: no live entry holds a destroyed object, nothing is destroyed twice *)
(***************************************************************************)
(* C20, as stated: for a table with key and value destructors, after any
   sequence of Put, Remove and Clean calls, a Put of the very key or value
   object stored in the matching entry included, no live entry holds a key or
   value that was passed to a destructor, and no object is passed to its
   destructor more than once, zc_hashtable_del included. *)
C20_AsStated ==
    /\ alive => ~Dangling
    /\ freed.keys_again = {}
    /\ freed.values_again = {}

(* The property holds as long as no Put has passed an object that was stored. *)
C20_WithoutStoredObjects == ~freed.aliased => C20_AsStated

(* The two halves of C20_AsStated fail separately. *)
C20_NeverDangling == alive => ~Dangling
C20_NeverTwice == freed.keys_again = {} /\ freed.values_again = {}

====
